---- MODULE Spec2Model ----
(***************************************************************************)
(* Model of the tool sql_to_knex_coffeescript of agent.py: the             *)
(* transliteration of one SELECT statement into a Knex.js chain written    *)
(* in CoffeeScript.  A Python str is a sequence of one-character strings,  *)
(* so that strip, lower, split, replace and the f-strings are computed     *)
(* character by character as the interpreter computes them.                *)
(***************************************************************************)
EXTENDS Integers, Sequences, FiniteSets, TLC

VARIABLES input, sql_query, select_part, table_part, where_clause,
          conditions, current_operator, i, exc, result, pc, log

vars == <<input, sql_query, select_part, table_part, where_clause,
          conditions, current_operator, i, exc, result, pc, log>>

(* ------------------------------ bounds --------------------------------- *)

\* number of complete 4-token strides generated in front of the last condition
MaxConds == 2

\* number of invocations of the tool in one run of the agent loop
MaxCalls == 2

(* ------------------------- characters of a str ------------------------- *)

UPPERCASE == <<"A", "B", "C", "D", "E", "F", "G", "H", "I", "J", "K", "L", "M", "N", "O", "P", "Q", "R", "S", "T", "U", "V", "W", "X", "Y", "Z">>

LOWERCASE == <<"a", "b", "c", "d", "e", "f", "g", "h", "i", "j", "k", "l", "m", "n", "o", "p", "q", "r", "s", "t", "u", "v", "w", "x", "y", "z">>

DIGITS == {"0", "1", "2", "3", "4", "5", "6", "7", "8", "9"}

WHITESPACE == {" ", "\t", "\n", "\r", "\f"}

Min(a, b) == IF a < b THEN a ELSE b

\* str.lower on one character
LowerChar(c) ==
    IF \E k \in 1..Len(UPPERCASE) : UPPERCASE[k] = c
    THEN LOWERCASE[CHOOSE k \in 1..Len(UPPERCASE) : UPPERCASE[k] = c]
    ELSE c

\* str.lower
Lower(s) == [k \in 1..Len(s) |-> LowerChar(s[k])]

\* s[a:] in 1-based positions
From(s, a) == SubSeq(s, a, Len(s))

RECURSIVE LStrip(_)
LStrip(s) ==
    IF s # <<>> /\ s[1] \in WHITESPACE THEN LStrip(Tail(s)) ELSE s

RECURSIVE RStrip(_)
RStrip(s) ==
    IF s # <<>> /\ s[Len(s)] \in WHITESPACE
    THEN RStrip(SubSeq(s, 1, Len(s) - 1)) ELSE s

\* str.strip
Strip(s) == RStrip(LStrip(s))

\* str.startswith
StartsWith(s, p) == Len(s) >= Len(p) /\ SubSeq(s, 1, Len(p)) = p

\* str.endswith
EndsWith(s, p) == Len(s) >= Len(p) /\ SubSeq(s, Len(s) - Len(p) + 1, Len(s)) = p

\* str.find, 1-based, 0 when p does not occur in s
Find(s, p) ==
    LET hits == {k \in 1..(Len(s) - Len(p) + 1) : SubSeq(s, k, k + Len(p) - 1) = p}
    IN  IF hits = {} THEN 0 ELSE CHOOSE k \in hits : \A j \in hits : k <= j

\* p in s
Contains(s, p) == Find(s, p) # 0

\* str.split(sep) for a non-empty separator
RECURSIVE Split(_, _)
Split(s, sep) ==
    LET k == Find(s, sep)
    IN  IF k = 0 THEN <<s>>
        ELSE <<SubSeq(s, 1, k - 1)>> \o Split(From(s, k + Len(sep)), sep)

\* str.replace(old, new), every occurrence, left to right
RECURSIVE Replace(_, _, _)
Replace(s, old, new) ==
    LET k == Find(s, old)
    IN  IF k = 0 THEN s
        ELSE SubSeq(s, 1, k - 1) \o new \o Replace(From(s, k + Len(old)), old, new)

\* length of the leading run of non-whitespace characters
RECURSIVE WordLen(_)
WordLen(s) ==
    IF s = <<>> \/ s[1] \in WHITESPACE THEN 0 ELSE 1 + WordLen(Tail(s))

\* str.split() without argument: runs of whitespace separate, no empty items
RECURSIVE SplitWs(_)
SplitWs(s) ==
    LET t == LStrip(s)
        n == WordLen(t)
    IN  IF t = <<>> THEN <<>>
        ELSE <<SubSeq(t, 1, n)>> \o SplitWs(From(t, n + 1))

\* str.isdigit
IsDigit(s) == s # <<>> /\ \A k \in 1..Len(s) : s[k] \in DIGITS

\* str(n) for the one-digit counts that occur in messages
Str(n) == <<<<"0", "1", "2", "3", "4", "5", "6", "7", "8", "9">>[n + 1]>>

(* ------------------------------ literals ------------------------------- *)

SELECT == <<"s", "e", "l", "e", "c", "t">>

FROM == <<"f", "r", "o", "m">>

WHERE == <<"w", "h", "e", "r", "e">>

AND == <<"a", "n", "d">>

OR == <<"o", "r">>

AND_WHERE == <<"a", "n", "d", "W", "h", "e", "r", "e">>

OR_WHERE == <<"o", "r", "W", "h", "e", "r", "e">>

QUOTE == <<"'">>

FALLBACK_MESSAGE == <<"O", "n", "l", "y", " ", "b", "a", "s", "i", "c", " ", "S", "E", "L", "E", "C", "T", " ", "q", "u", "e", "r", "i", "e", "s", " ", "a", "r", "e", " ", "s", "u", "p", "p", "o", "r", "t", "e", "d", " ", "i", "n", " ", "t", "h", "i", "s", " ", "e", "x", "a", "m", "p", "l", "e", ".">>

ERROR_PREFIX == <<"A", "n", " ", "e", "r", "r", "o", "r", " ", "o", "c", "c", "u", "r", "r", "e", "d", " ", "w", "h", "i", "l", "e", " ", "t", "r", "a", "n", "s", "f", "o", "r", "m", "i", "n", "g", " ", "S", "Q", "L", " ", "t", "o", " ", "K", "n", "e", "x", ".", "j", "s", ":", " ">>

NoException == [type |-> "", msg |-> <<>>]

\* raised by split("from")[1] when the statement has no from
IndexError == [type |-> "IndexError", msg |-> <<"l", "i", "s", "t", " ", "i", "n", "d", "e", "x", " ", "o", "u", "t", " ", "o", "f", " ", "r", "a", "n", "g", "e">>]

\* raised by the unpacking of a slice of n < 3 tokens
ValueError(n) ==
    [type |-> "ValueError",
     msg |-> <<"n", "o", "t", " ", "e", "n", "o", "u", "g", "h", " ", "v", "a", "l", "u", "e", "s", " ", "t", "o", " ", "u", "n", "p", "a", "c", "k", " ", "(", "e", "x", "p", "e", "c", "t", "e", "d", " ", "3", ",", " ", "g", "o", "t", " ">> \o Str(n) \o <<")">>]

CaughtOnlyValueError(e) == e.type = "ValueError"

\* except Exception: both built-in errors derive from Exception
Caught(e) == e.type \in {"IndexError", "ValueError"}

(* ------------------------- the steps of the tool ----------------------- *)

NormalizedWithoutStrip(s) == Lower(s)

\* sql_query.strip().lower()
Normalized(s) == Lower(Strip(s))

\* sql_query.split("from")[0].replace("select", "").strip()
SelectPart(q) == Strip(Replace(Split(q, FROM)[1], SELECT, <<>>))

\* sql_query.split("from")[1].strip().split(" ")[0]; needs two items
TablePart(q) == Split(Strip(Split(q, FROM)[2]), <<" ">>)[1]

\* sql_query.split("where")[1].strip().split()
Conditions(q) == SplitWs(Strip(Split(q, WHERE)[2]))

NextOperatorDefaulting(cur, prev) ==
    IF Lower(prev) = AND THEN AND_WHERE
    ELSE IF Lower(prev) = OR THEN OR_WHERE
    ELSE WHERE

\* the operator of a later stride, from the token in front of it
NextOperator(cur, prev) ==
    IF Lower(prev) = AND THEN AND_WHERE
    ELSE IF Lower(prev) = OR THEN OR_WHERE
    ELSE cur

FormatValueQuoteFirst(value) ==
    IF StartsWith(value, QUOTE) /\ EndsWith(value, QUOTE) THEN value
    ELSE QUOTE \o value \o QUOTE

\* the third field of a condition line
FormatValue(value) ==
    IF IsDigit(value) THEN value
    ELSE IF StartsWith(value, QUOTE) /\ EndsWith(value, QUOTE) THEN value
    ELSE QUOTE \o value \o QUOTE

\* f".{current_operator} '{column}', '{operator}', {formatted_value}"
ConditionLine(op, column, operator, formatted_value) ==
    <<".">> \o op \o <<" ", "'">> \o column \o <<"'", ",", " ", "'">> \o operator \o <<"'", ",", " ">> \o formatted_value

\* the for loop that appends "\n" and each clause
RECURSIVE JoinClauses(_)
JoinClauses(clauses) ==
    IF clauses = <<>> THEN <<>>
    ELSE <<"\n">> \o Head(clauses) \o JoinClauses(Tail(clauses))

\* the returned f-string with its trailing newline
KnexQuery(table, columns, clauses) ==
    <<"k", "n", "e", "x", " ", "'">> \o table \o <<"'", "\n", ".", "s", "e", "l", "e", "c", "t", " ", "'">> \o columns \o <<"'">>
        \o JoinClauses(clauses) \o <<"\n">>

KeptWhereClause == where_clause

\* where_clause = []
NewWhereClause == <<>>

(* ------------------------------- inputs -------------------------------- *)

\* statement heads a WHERE clause is appended to
WhereHeads == {<<"s", "e", "l", "e", "c", "t", " ", "i", "d", " ", "f", "r", "o", "m", " ", "u", "s", "e", "r", "s">>, <<" ", " ", "S", "E", "L", "E", "C", "T", " ", "i", "d", ",", " ", "n", "a", "m", "e", " ", "F", "R", "O", "M", " ", "u", "s", "e", "r", "s">>}

\* the column of the k-th condition
ColumnAt(k) == <<LOWERCASE[k]>>

Values == {<<"1", "8">>, <<"a", "c", "t", "i", "v", "e">>, <<"'", "x", "'">>, <<"'", "y">>}

Conjunctions == {AND, OR, <<"x", "x">>}

Terminators == {<<>>, <<";">>}

\* n complete strides: a value and the token that follows it
Strides == UNION {[1..n -> Values \X Conjunctions] : n \in 0..MaxConds}

RECURSIVE StrideText(_, _)
StrideText(f, k) ==
    IF k > Len(f) THEN <<>>
    ELSE <<" ">> \o ColumnAt(k) \o <<" ", "=", " ">> \o f[k][1] \o <<" ">> \o f[k][2]
             \o StrideText(f, k + 1)

\* the last condition: absent, cut after 1 or 2 tokens, or complete
LastConditions(k) ==
    {<<>>, <<" ">> \o ColumnAt(k), <<" ">> \o ColumnAt(k) \o <<" ", "=">>}
        \cup {<<" ">> \o ColumnAt(k) \o <<" ", "=", " ">> \o v : v \in Values}

WhereInputs ==
    {h \o <<" ", "w", "h", "e", "r", "e">> \o StrideText(f, 1) \o l \o t :
        h \in WhereHeads, f \in Strides, l \in LastConditions(MaxConds + 1),
        t \in Terminators}

Columns == {<<"*">>, <<"i", "d", ",", " ", "n", "a", "m", "e">>}

Tables == {<<"u", "s", "e", "r", "s">>, <<"t">>}

\* select <columns> from <table> with and without the terminator
PlainInputs ==
    {<<"s", "e", "l", "e", "c", "t", " ">> \o c \o <<" ", "f", "r", "o", "m", " ">> \o tb \o t :
        c \in Columns, tb \in Tables, t \in Terminators}

OtherInputs ==
    {<<>>, <<" ", " ", " ">>, <<"i", "n", "s", "e", "r", "t", " ", "i", "n", "t", "o", " ", "u", "s", "e", "r", "s", " ", "v", "a", "l", "u", "e", "s", " ", "(", "1", ")">>,
     <<"u", "p", "d", "a", "t", "e", " ", "t", " ", "s", "e", "t", " ", "a", " ", "=", " ", "s", "e", "l", "e", "c", "t">>, <<" ", "\n", " ", "S", "e", "l", "e", "c", "t", " ", "*", " ", "F", "r", "o", "m", " ", "U", "s", "e", "r", "s", " ", "\n">>,
     <<"s", "e", "l", "e", "c", "t", " ", "i", "d">>, <<"s", "e", "l", "e", "c", "t", "i", "o", "n">>, <<"s", "e", "l", "e", "c", "t", " ", "s", "e", "l", "e", "c", "t", "e", "d", " ", "f", "r", "o", "m", " ", "u", "s", "e", "r", "s">>,
     <<"s", "e", "l", "e", "c", "t", " ", "i", "d", " ", "f", "r", "o", "m", " ", "t", " ", "f", "r", "o", "m", " ", "u">>, <<"s", "e", "l", "e", "c", "t", " ", "i", "d", " ", "f", "r", "o", "m">>,
     <<"s", "e", "l", "e", "c", "t", " ", "i", "d", " ", "f", "r", "o", "m", " ", "t", " ", "w", "h", "e", "r", "e", " ", "a", " ", "=", " ", "1", " ", "w", "h", "e", "r", "e", " ", "b", " ", "=", " ", "2">>,
     <<"s", "e", "l", "e", "c", "t", " ", "i", "d", " ", "f", "r", "o", "m", " ", "t", " ", "w", "h", "e", "r", "e", " ", "a", " ", "=", " ", "1", " ", "a", "n", "d", " ", "b", " ", "=", " ", "2", " ", "w", "h", "e", "r", "e", " ", "c", " ", "=", " ", "3">>,
     <<"s", "e", "l", "e", "c", "t", " ", "i", "d", " ", "f", "r", "o", "m", " ", "u", "s", "e", "r", "s", "\n", "w", "h", "e", "r", "e", " ", "a", "g", "e", " ", ">", " ", "1", "8">>,
     <<"s", "e", "l", "e", "c", "t", " ", "i", "d", ",", "\n", " ", "n", "a", "m", "e", " ", "f", "r", "o", "m", " ", "u", "s", "e", "r", "s", " ", "w", "h", "e", "r", "e", " ", " ", "a", "g", "e", " ", " ", ">", " ", " ", "1", "8", "\n", " ", "A", "N", "D", " ", " ", "s", "t", "a", "t", "u", "s", " ", "=", " ", "'", "\n">>,
     <<"s", "e", "l", "e", "c", "t", " ", "w", "h", "e", "r", "e", " ", "f", "r", "o", "m", " ", "t">>, <<"s", "e", "l", "e", "c", "t", " ", "i", "d", " ", "f", "r", "o", "m", " ", "t", " ", "w", "h", "e", "r", "e", " ", "0", "0", "7", " ", "=", " ", "'", "'", " ", "o", "r", " ", "b", " ", "=", " ", "1", "a">>}

Inputs == WhereInputs \cup PlainInputs \cup OtherInputs

\* the statements the agent submits when it calls the tool repeatedly
CallInputs ==
    {<<"i", "n", "s", "e", "r", "t", " ", "i", "n", "t", "o", " ", "u", "s", "e", "r", "s", " ", "v", "a", "l", "u", "e", "s", " ", "(", "1", ")">>, <<"s", "e", "l", "e", "c", "t", " ", "i", "d">>, <<"s", "e", "l", "e", "c", "t", " ", "*", " ", "f", "r", "o", "m", " ", "u", "s", "e", "r", "s", ";">>,
     <<"s", "e", "l", "e", "c", "t", " ", "i", "d", " ", "f", "r", "o", "m", " ", "u", "s", "e", "r", "s", " ", "w", "h", "e", "r", "e", " ", "a", " ", "=", " ", "1", "8", " ", "a", "n", "d", " ", "b", " ", "=", " ", "a", "c", "t", "i", "v", "e">>,
     <<"s", "e", "l", "e", "c", "t", " ", "i", "d", " ", "f", "r", "o", "m", " ", "u", "s", "e", "r", "s", " ", "w", "h", "e", "r", "e", " ", "a", " ", "=", " ", "1", "8", " ", "a", "n", "d", " ", "b">>,
     <<"s", "e", "l", "e", "c", "t", " ", "i", "d", " ", "f", "r", "o", "m", " ", "u", "s", "e", "r", "s", " ", "w", "h", "e", "r", "e", " ", "a", " ", "=", " ", "'", "x", "'", " ", "o", "r", " ", "b", " ", "=", " ", "1", "8", " ", "x", "x", " ", "c", " ", "=", " ", "1">>}

(* -------------------------------- state -------------------------------- *)

TypeOK ==
    /\ pc \in {"call", "parts", "where", "loop", "build", "except", "done", "raised"}
    /\ i \in Nat
    /\ exc.type \in {"", "IndexError", "ValueError"}
    /\ Len(log) <= MaxCalls + 1

InitWith(S) ==
    /\ input \in S
    /\ sql_query = <<>>
    /\ select_part = <<>>
    /\ table_part = <<>>
    /\ where_clause = <<>>
    /\ conditions = <<>>
    /\ current_operator = <<>>
    /\ i = 0
    /\ exc = NoException
    /\ result = <<>>
    /\ pc = "call"
    /\ log = <<>>

Init == InitWith(Inputs)

InitCalls == InitWith(CallInputs)

\* lines 72, 73 and 104
Normalize ==
    /\ pc = "call"
    /\ sql_query' = Normalized(input)
    /\ IF StartsWith(sql_query', SELECT)
       THEN pc' = "parts" /\ UNCHANGED result
       ELSE pc' = "done" /\ result' = FALLBACK_MESSAGE
    /\ UNCHANGED <<input, select_part, table_part, where_clause, conditions,
                   current_operator, i, exc, log>>

\* lines 74 and 75
SplitParts ==
    /\ pc = "parts"
    /\ select_part' = SelectPart(sql_query)
    /\ IF Len(Split(sql_query, FROM)) < 2
       THEN exc' = IndexError /\ pc' = "except" /\ UNCHANGED table_part
       ELSE table_part' = TablePart(sql_query) /\ pc' = "where" /\ UNCHANGED exc
    /\ UNCHANGED <<input, sql_query, where_clause, conditions,
                   current_operator, i, result, log>>

\* lines 77 to 81, and the start of the range of line 82
WhereSetup ==
    /\ pc = "where"
    /\ where_clause' = NewWhereClause
    /\ IF Contains(sql_query, WHERE)
       THEN /\ conditions' = Conditions(sql_query)
            /\ current_operator' = WHERE
            /\ i' = 0
            /\ pc' = "loop"
       ELSE /\ pc' = "build"
            /\ UNCHANGED <<conditions, current_operator, i>>
    /\ UNCHANGED <<input, sql_query, select_part, table_part, exc, result, log>>

\* one pass of the loop of lines 82 to 97, or its exit
LoopStep ==
    /\ pc = "loop"
    /\ IF i >= Len(conditions)
       THEN /\ pc' = "build"
            /\ UNCHANGED <<where_clause, current_operator, i, exc>>
       ELSE LET op == IF i > 0
                      THEN NextOperator(current_operator, conditions[i])
                      ELSE current_operator
                chunk == SubSeq(conditions, i + 1, Min(i + 3, Len(conditions)))
            IN  /\ current_operator' = op
                /\ IF Len(chunk) < 3
                   THEN /\ exc' = ValueError(Len(chunk))
                        /\ pc' = "except"
                        /\ UNCHANGED <<where_clause, i>>
                   ELSE /\ where_clause' =
                               Append(where_clause,
                                      ConditionLine(op, chunk[1], chunk[2],
                                                    FormatValue(chunk[3])))
                        /\ i' = i + 4
                        /\ pc' = "loop"
                        /\ UNCHANGED exc
    /\ UNCHANGED <<input, sql_query, select_part, table_part, conditions,
                   result, log>>

\* lines 99 to 103
Build ==
    /\ pc = "build"
    /\ result' = KnexQuery(table_part, select_part, where_clause)
    /\ pc' = "done"
    /\ UNCHANGED <<input, sql_query, select_part, table_part, where_clause,
                   conditions, current_operator, i, exc, log>>

\* lines 105 and 106
Except ==
    /\ pc = "except"
    /\ IF Caught(exc)
       THEN result' = ERROR_PREFIX \o exc.msg /\ pc' = "done"
       ELSE pc' = "raised" /\ UNCHANGED result
    /\ UNCHANGED <<input, sql_query, select_part, table_part, where_clause,
                   conditions, current_operator, i, exc, log>>

\* the agent executor records the tool's answer and calls the tool again;
\* the slots of the locals are not cleared, the code assigns them before use
CallAgain ==
    /\ pc = "done"
    /\ Len(log) < MaxCalls
    /\ log' = Append(log, <<input, result>>)
    /\ input' \in CallInputs
    /\ exc' = NoException
    /\ pc' = "call"
    /\ UNCHANGED <<sql_query, select_part, table_part, where_clause,
                   conditions, current_operator, i, result>>

Next ==
    \/ Normalize
    \/ SplitParts
    \/ WhereSetup
    \/ LoopStep
    \/ Build
    \/ Except

NextCalls ==
    \/ Next
    \/ CallAgain

Spec == Init /\ [][Next]_vars

SpecCalls == InitCalls /\ [][NextCalls]_vars

(* ------------------------------- claims -------------------------------- *)

\* the call returned a transliteration
Succeeded == pc = "done" /\ exc = NoException /\ result # FALLBACK_MESSAGE

\* C1: the call never raises; what it returns is exactly one of the fallback
\* message, a message with the error prefix, or a text that starts with
\* knex ' and ends with a newline; after a failure the result is the
\* prefixed message and holds no line that was already built.
C1_ReturnsOneOfThreeForms ==
    /\ pc # "raised"
    /\ pc = "done" =>
         LET fallback == result = FALLBACK_MESSAGE
             failed == StartsWith(result, ERROR_PREFIX)
             complete == StartsWith(result, <<"k", "n", "e", "x", " ", "'">>) /\ EndsWith(result, <<"\n">>)
         IN  /\ fallback \/ failed \/ complete
             /\ ~(fallback /\ failed) /\ ~(fallback /\ complete) /\ ~(failed /\ complete)
             /\ exc # NoException =>
                  /\ failed
                  /\ ~Contains(result, <<"k", "n", "e", "x", " ", "'">>)
                  /\ ~Contains(result, <<".", "s", "e", "l", "e", "c", "t", " ", "'">>)
                  /\ ~Contains(result, <<"\n">>)
                  /\ \A k \in DOMAIN where_clause : ~Contains(result, where_clause[k])

\* a failure in the second stride, after the first condition line was built
C1_Witness ==
    /\ pc = "done"
    /\ exc.type = "ValueError"
    /\ Len(where_clause) >= 1
    /\ StartsWith(result, ERROR_PREFIX)

\* C2: the fallback message, and nothing else, is returned exactly for the
\* inputs that do not start with select once stripped and lower-cased.
C2_FallbackIffNotSelect ==
    pc = "done" => (result = FALLBACK_MESSAGE <=> ~StartsWith(Lower(Strip(input)), SELECT))

\* both sides: a select that needs the strip and the lower-casing
C2_Witness ==
    /\ pc = "done"
    /\ input # Lower(Strip(input))
    /\ StartsWith(input, <<" ">>)
    /\ StartsWith(Lower(Strip(input)), SELECT)
    /\ result # FALLBACK_MESSAGE

\* the operator keyword of a condition line
KeywordOf(line) == SubSeq(line, 2, Find(line, <<" ">>) - 1)

\* C3 as stated: the first condition line uses where, a later one andWhere
\* after and, orWhere after or, and where after any other token.
C3_KeywordDefaultsToWhere ==
    \A k \in DOMAIN where_clause :
        KeywordOf(where_clause[k]) =
            IF k = 1 THEN WHERE
            ELSE IF conditions[4 * (k - 1)] = AND THEN AND_WHERE
            ELSE IF conditions[4 * (k - 1)] = OR THEN OR_WHERE
            ELSE WHERE

\* C3 amended: after any other token the keyword of the previous condition
\* line is kept.
C3_KeywordCarriesOver ==
    \A k \in DOMAIN where_clause :
        KeywordOf(where_clause[k]) =
            IF k = 1 THEN WHERE
            ELSE IF conditions[4 * (k - 1)] = AND THEN AND_WHERE
            ELSE IF conditions[4 * (k - 1)] = OR THEN OR_WHERE
            ELSE KeywordOf(where_clause[k - 1])

\* a third condition behind a token that is neither and nor or, after an or
C3_Witness ==
    /\ Succeeded
    /\ Len(where_clause) = 3
    /\ conditions[4] = OR
    /\ conditions[8] \notin {AND, OR}
    /\ KeywordOf(where_clause[3]) = OR_WHERE

\* the text behind the first occurrence of p in s
AfterFirst(s, p) == From(s, Find(s, p) + Len(p))

\* C4: a select statement whose WHERE clause has no token at all, or whose
\* last stride holds only 1 or 2 tokens, yields the prefixed error message.
C4_IncompleteWhereIsError ==
    (pc = "done" /\ StartsWith(sql_query, SELECT) /\ Contains(sql_query, WHERE)) =>
        LET n == Len(SplitWs(AfterFirst(sql_query, WHERE)))
        IN  (n = 0 \/ n % 4 \in {1, 2}) => StartsWith(result, ERROR_PREFIX)

\* C5: select <columns> from <table>; gives knex '<table>' and
\* .select '<columns>' and a trailing newline, the table without the semicolon.
C5_PlainSelectDropsTerminator ==
    \A c \in Columns, tb \in Tables :
        (pc = "done" /\ input = <<"s", "e", "l", "e", "c", "t", " ">> \o c \o <<" ", "f", "r", "o", "m", " ">> \o tb \o <<";">>) =>
            result = <<"k", "n", "e", "x", " ", "'">> \o tb \o <<"'", "\n", ".", "s", "e", "l", "e", "c", "t", " ", "'">> \o c \o <<"'", "\n">>

\* C6: in select ... where <col> <op> <value>; the condition line is built
\* from <value> without the terminator: digits unquoted, a bare word quoted.
C6_LastValueDropsTerminator ==
    \A h \in WhereHeads, v \in {<<"1", "8">>, <<"a", "c", "t", "i", "v", "e">>} :
        (pc = "done" /\ input = h \o <<" ", "w", "h", "e", "r", "e", " ">> \o ColumnAt(MaxConds + 1)
                                  \o <<" ", "=", " ">> \o v \o <<";">>) =>
            EndsWith(result,
                     <<"\n", ".", "w", "h", "e", "r", "e", " ", "'">> \o ColumnAt(MaxConds + 1) \o <<"'", ",", " ", "'", "=", "'", ",", " ">>
                         \o (IF v = <<"1", "8">> THEN v ELSE QUOTE \o v \o QUOTE) \o <<"\n">>)

\* the condition lines of the returned text, the last Len(where_clause) lines
ResultConditionLines ==
    LET lines == Split(result, <<"\n">>)
        first == Len(lines) - 1 - Len(where_clause)
    IN  [k \in 1..Len(where_clause) |-> lines[first + k]]

\* C7: the third field of every condition line is the value token itself
\* when it is all digits, else the token itself when it starts and ends
\* with a single quote, else the token between two single quotes.
C7_ValueFormatting ==
    Succeeded =>
        \A k \in DOMAIN where_clause :
            LET value == conditions[4 * (k - 1) + 3]
                field == Split(ResultConditionLines[k], <<" ">>)[4]
                digits == value # <<>> /\ \A j \in 1..Len(value) : value[j] \in DIGITS
                quoted == value[1] = "'" /\ value[Len(value)] = "'"
            IN  /\ digits => field = value
                /\ (~digits /\ quoted) => field = value
                /\ (~digits /\ ~quoted) => field = <<"'">> \o value \o <<"'">>

\* one transliteration with an all-digit, a quoted and a bare value
C7_Witness ==
    /\ Succeeded
    /\ Len(where_clause) = 3
    /\ \E a, b, c \in 1..3 :
          /\ IsDigit(conditions[4 * a - 1])
          /\ conditions[4 * b - 1] = <<"'", "x", "'">>
          /\ conditions[4 * c - 1] \in {<<"a", "c", "t", "i", "v", "e">>, <<"'", "y">>}

\* C8: a call returns what every earlier call with the same input returned,
\* whatever calls were made in between.
C8_SameInputSameResult ==
    /\ \A a, b \in DOMAIN log : log[a][1] = log[b][1] => log[a][2] = log[b][2]
    /\ pc = "done" => \A a \in DOMAIN log : log[a][1] = input => log[a][2] = result

\* the same statement transliterated again behind a call that failed
C8_Witness ==
    /\ pc = "done"
    /\ Len(log) = 2
    /\ log[1][1] = input
    /\ StartsWith(log[2][2], ERROR_PREFIX)
    /\ Len(where_clause) >= 2
    /\ Succeeded

\* C9: the column list is the text in front of from without the leading
\* select keyword, trimmed, later occurrences of select kept; the table is
\* the text behind from up to the first space.
C9_OnlyLeadingSelectRemoved ==
    Succeeded =>
        LET columns == Strip(From(SubSeq(sql_query, 1, Find(sql_query, FROM) - 1),
                                  Len(SELECT) + 1))
            behind == Strip(AfterFirst(sql_query, FROM))
            table == IF Contains(behind, <<" ">>)
                     THEN SubSeq(behind, 1, Find(behind, <<" ">>) - 1) ELSE behind
        IN  StartsWith(result, <<"k", "n", "e", "x", " ", "'">> \o table \o <<"'", "\n", ".", "s", "e", "l", "e", "c", "t", " ", "'">> \o columns \o <<"'">>)

\* C10: the result is the line knex '<table>', the line .select '<columns>',
\* one condition line for every stride of 4 tokens of the text behind the
\* first where, in the order of the input, and one trailing newline.
C10_LineStructure ==
    Succeeded =>
        LET tokens == IF Contains(sql_query, WHERE)
                      THEN SplitWs(AfterFirst(sql_query, WHERE)) ELSE <<>>
            strides == (Len(tokens) + 3) \div 4
            lines == Split(result, <<"\n">>)
        IN  /\ Len(lines) = 2 + strides + 1
            /\ lines[1] = <<"k", "n", "e", "x", " ", "'">> \o table_part \o <<"'">>
            /\ lines[2] = <<".", "s", "e", "l", "e", "c", "t", " ", "'">> \o select_part \o <<"'">>
            /\ lines[Len(lines)] = <<>>
            /\ \A k \in 1..strides :
                  \E kw \in {WHERE, AND_WHERE, OR_WHERE} :
                      StartsWith(lines[2 + k],
                                 <<".">> \o kw \o <<" ", "'">> \o tokens[4 * k - 3] \o <<"'", ",", " ", "'">>
                                     \o tokens[4 * k - 2] \o <<"'", ",", " ">>)

====
